---------------------------- MODULE Spec2Model ----------------------------
(***************************************************************************)
(* Grindbot: a polling supervisor that farms tasks out to worker           *)
(* processes (src/server.js).  The source file holds two iterations of the *)
(* server, one after the other:                                            *)
(*                                                                         *)
(*   "session"  src/server.js lines 1-510:   TmuxSession class, finishTask,*)
(*              stop endpoint; statuses pending / running / completed.     *)
(*   "review"   src/server.js lines 511-1024: review / question workflow,  *)
(*              finishTmuxTask, spawnClaudeTmux, spawnClaudeLegacy.        *)
(*                                                                         *)
(* The variable `iteration` says which of the two programs is running; it  *)
(* never changes.  Definitions ending in _S model the first listing,       *)
(* definitions ending in _R the second.                                    *)
(*                                                                         *)
(* Texts (worker output, feedback, questions) are sequences of lexical     *)
(* units: a printable character, a blank, a line break, a carriage return, *)
(* one complete escape sequence, or the question marker "[QUESTION]:".     *)
(* An optional value (null / undefined in the source) is the empty tuple,  *)
(* a present value v is the one-element tuple <<v>>.                       *)
(*                                                                         *)
(* Two bounded configurations are explored (the variable `scope`):         *)
(*   "deep"  one task; every request body and every worker output of the   *)
(*           alphabet below; the modification time is tracked.             *)
(*   "wide"  two tasks; requests without title / description, two worker   *)
(*           outputs; neither the modification time nor the HTTP response  *)
(*           is tracked.                                                   *)
(* In both the config file keeps its default content.  A third one,        *)
(*   "config" one task, the requests and outputs of "wide", and every      *)
(*           body of PATCH /api/config listed under ConfigBodies.          *)
(***************************************************************************)
EXTENDS Integers, Sequences, FiniteSets

\* ------------------------------------------------------------------ bounds

\* Entries one task's history can hold (it is never truncated in the source).
MaxHistory == 2

\* Child processes whose callbacks are still to come (a tick that throws
\* after a dispatch leaves the task pending and its process running, so
\* the source puts no limit on them).
MaxProcs == 2

\* Length of the retained output tail.  The source keeps 50000 characters
\* (src/server.js:108, 625, 774); the model keeps this many units.
OutputCap == 4

\* --------------------------------------------------------------- optionals

Null == <<>>

Some(v) == <<v>>

IsNull(o) == o = <<>>

Val(o) == o[1]

\* ------------------------------------------------------------------- texts

MARK == "[QUESTION]:"
SP == " "
NL == "\n"
CR == "\r"
CSI == "\\x1b[0m"
CSIPRIV == "\\x1b[?25l"
OSC == "\\x1b]0;t\\x07"
CHARSET == "\\x1b(B"

\* Line terminators and white space of the regular expression dialect.
LineTerminators == {NL, CR}

WhiteSpace == {SP, NL, CR}

\* Fixed texts the server writes itself.
NoOutputText == <<"(no output)">>

SessionEndedText == <<"(session ended while server was down)">>

StoppedText == <<"(stopped by user)">>

ExitCodeText == <<"(process exited with code N)">>

TmuxErrorText == <<"Error starting tmux session: E">>

SpawnErrorText == <<"Error spawning claude: E">>

\* What a worker may write (stdout, or the session's log): nothing, plain
\* text, a question, a marker followed by a blank only, and a text longer
\* than the cap whose first line is a question and which holds an escape
\* sequence.
RawOutputs ==
    { <<>>,
      <<"a">>,
      <<MARK, SP, "b">>,
      <<MARK, SP>>,
      <<MARK, "b", NL, CSI, "a", "a", "a", "a">> }

\* stripAnsi of the first listing: CSI (also private modes), OSC, character
\* set selection and carriage returns are removed.
stripAnsi_S(str) ==
    SelectSeq(str, LAMBDA c : c \notin {CSI, CSIPRIV, OSC, CHARSET, CR})

\* stripAnsi of the second listing: CSI without '?' and OSC only.
stripAnsi_R(str) ==
    SelectSeq(str, LAMBDA c : c \notin {CSI, OSC})

\* output.length > 50000 ? output.slice(-50000) : output
truncateTail(output) ==
    IF Len(output) > OutputCap
    THEN SubSeq(output, Len(output) - OutputCap + 1, Len(output))
    ELSE output

\* String.prototype.trim
RECURSIVE trimLeft(_)
trimLeft(s) ==
    IF s # <<>> /\ Head(s) \in WhiteSpace THEN trimLeft(Tail(s)) ELSE s

RECURSIVE trimRight(_)
trimRight(s) ==
    IF s # <<>> /\ s[Len(s)] \in WhiteSpace
    THEN trimRight(SubSeq(s, 1, Len(s) - 1))
    ELSE s

trim(s) == trimRight(trimLeft(s))

SetMax(S) == CHOOSE x \in S : \A y \in S : y <= x

SetMin(S) == CHOOSE x \in S : \A y \in S : x <= y

\* output.match(/^\[QUESTION\]:\s*(.+)$/m): the capture group of the leftmost
\* match, or Null.  '^' (flag m) is the start of the text or just after a line
\* terminator; '\s*' is greedy and may run over line terminators; '(.+)' is
\* one or more characters that are no line terminator, taken to the end of
\* the line, where '$' (flag m) holds.
GroupStarts(s, p) ==
    { k \in (p + 1)..Len(s) :
        /\ \A j \in (p + 1)..(k - 1) : s[j] \in WhiteSpace
        /\ s[k] \notin LineTerminators }

LineEnd(s, k) ==
    SetMax({ e \in k..Len(s) : \A j \in k..e : s[j] \notin LineTerminators })

MatchStarts(s) ==
    { p \in 1..Len(s) :
        /\ s[p] = MARK
        /\ (p = 1 \/ s[p - 1] \in LineTerminators)
        /\ GroupStarts(s, p) # {} }

questionMatch(s) ==
    IF MatchStarts(s) = {}
    THEN Null
    ELSE LET p == SetMin(MatchStarts(s))
             k == SetMax(GroupStarts(s, p))
         IN  Some(SubSeq(s, k, LineEnd(s, k)))

\* ------------------------------------------------------------------- state

VARIABLES
    scope,              \* "deep", "wide" or "config": the bounded configuration explored
    iteration,          \* "session" (lines 1-510) or "review" (lines 511-1024)
    hasTmux,            \* tmux detection at start-up
    serving,            \* the process is up and app.listen has called back
    tasks,              \* tasks.json: the persisted, ordered task records
    nextId,             \* identifiers handed out so far (uuid: never reused)
    runningProcesses,   \* the in-memory registry: task id -> entry
    pollingRunning,     \* let pollingRunning
    pollingTimer,       \* let pollingTimer: TRUE when it holds a timer handle
    timers,             \* recurring pollTick timers installed in the event loop
    timerDelay,         \* the delay the last setInterval was given, in ms (0: none)
    config,             \* config.json: pollingInterval and workingDirectory
    monitors,           \* task ids with a live TmuxSession._pollTimer
    sessions,           \* task ids whose tmux session grindbot-<id> exists
    logs,               \* task id -> the session's log file (Null: no file)
    procs,              \* child processes: running or with callbacks still to come
    response,           \* the HTTP response sent by the last step ("none")
    broadcasts          \* saveTasks calls (file write + broadcast) of the last step

vars == << scope, iteration, hasTmux, serving, tasks, nextId, runningProcesses,
           pollingRunning, pollingTimer, timers, timerDelay, config, monitors,
           sessions, logs, procs, response, broadcasts >>

\* Task identifiers (uuid prefixes in the source), in the order they are
\* handed out.
Ids == {1, 2}

TaskLimit == IF scope = "wide" THEN Cardinality(Ids) ELSE 1

WorkerTexts ==
    IF scope = "deep" THEN RawOutputs ELSE { <<>>, <<"a">> }

\* A function with one key set, or removed.
Put(f, k, v) == [y \in (DOMAIN f) \cup {k} |-> IF y = k THEN v ELSE f[y]]

Del(f, k) == [y \in (DOMAIN f) \ {k} |-> f[y]]

\* Registry entries: a tmux session handle, or a child process handle h.
TmuxEntry == [kind |-> "tmux", h |-> 0]

ProcEntry(h) == [kind |-> "proc", h |-> h]

\* tasks.find(t => t.id === id): the index of the record, 0 when absent.
findIndex(ts, id) ==
    IF \E i \in 1..Len(ts) : ts[i].id = id
    THEN CHOOSE i \in 1..Len(ts) : ts[i].id = id
    ELSE 0

TaskIds(ts) == { ts[i].id : i \in 1..Len(ts) }

\* task.updatedAt = new Date().toISOString(): the clock has moved since the
\* record was last stamped, so every stamping changes the field.  Only
\* that is kept of the time: the field alternates between two values.
Stamp(t) == IF scope = "deep" THEN [t EXCEPT !.updatedAt = 1 - @] ELSE t

\* ----------------------------------------------------------------- config

\* A JSON number, and what JSON.stringify writes for NaN: null.
JNumber(n) == [num |-> TRUE, n |-> n]

JNull == [num |-> FALSE, n |-> 0]

\* A working directory: a string (its text), or a JSON value that is not one.
DirString(text) == [str |-> TRUE, text |-> text]

NotAString == [str |-> FALSE, text |-> << >>]

DefaultInterval == 30

\* loadConfig's defaults (lines 43 and 553).
defaults ==
    [ pollingInterval |-> JNumber(DefaultInterval),
      workingDirectory |-> DirString(<<".">>) ]

\* `Error starting tmux session: ${err.message}`: execSync's message is
\* "Command failed: " followed by the command line, which holds the working
\* directory (lines 151 and 726).
tmuxErrorText(cfg) == TmuxErrorText \o cfg.workingDirectory.text

\* config.pollingInterval * 1000 as setInterval takes it: null * 1000 is 0,
\* and a delay below 1 or above 2^31 - 1 is replaced by 1.
setIntervalDelay(interval) ==
    LET ms == IF interval.num THEN interval.n * 1000 ELSE 0 IN
    IF ms >= 1 /\ ms <= 2147483647 THEN ms ELSE 1

\* res.status(...).json(...): the response a handler sends, as the variable
\* `response` records it.  The "wide" configuration does not record it.
Sent(code) == IF scope = "wide" THEN "none" ELSE code

WithinBounds(ts) == \A i \in 1..Len(ts) : Len(ts[i].history) <= MaxHistory

\* A child process is known by its task and a handle number: the smallest
\* one no process of that task uses.  The pid is that number.
FreeHandle(ps, id) ==
    SetMin({ h \in 1..(Cardinality(ps) + 1) :
               \A p \in ps : p.task = id => p.h # h })

\* ChildProcess.kill(): a live process is signalled; its close event follows.
KillProc(ps, id, h) ==
    { IF p.task = id /\ p.h = h /\ p.st = "live"
      THEN [p EXCEPT !.st = "killed"] ELSE p : p \in ps }

\* The child processes that outlive the supervisor: nothing signals a
\* running child when the parent dies, and nobody listens to it any more
\* (so its handle number is forgotten).
Orphaned(ps) ==
    { [h |-> 0, task |-> p.task, st |-> "orphan"] :
        p \in { q \in ps : q.st \in {"live", "orphan"} } }

\* The mutable world one handler works on: the loaded task array and the
\* process-wide objects it touches.
World ==
    [ tasks |-> tasks, reg |-> runningProcesses, sessions |-> sessions,
      logs |-> logs, procs |-> procs, monitors |-> monitors, changed |-> FALSE,
      threw |-> FALSE, config |-> config ]

\* A query that keeps asking while `tmux has-session` fails.
exists_RetryOnFailure(m, id, oc) == id \in m.sessions

\* TmuxSession.exists (lines 189-196) and tmuxSessionExists (601-608):
\* `tmux has-session` in a try block, false when execSync throws.  With
\* oc = "queryFail" the command fails although the session is there.
exists(m, id, oc) == id \in m.sessions /\ oc # "queryFail"

\* ------------------------------------------------ first listing: dispatch

\* TmuxSession.kill(): stop the monitor, kill the session (best effort),
\* delete prompt / log / launcher files, drop the registry entry.
TmuxSessionKill(m, id) ==
    [m EXCEPT !.monitors = @ \ {id},
              !.sessions = @ \ {id},
              !.logs = [@ EXCEPT ![id] = Null],
              !.reg = Del(@, id)]

\* spawnClaude of the first listing, on the loaded record m.tasks[i].
\* oc is what the environment does to the launch: "ok" or "fail"
\* (session.start throws; spawn cannot start the binary).
spawnClaude_S(m, i, oc) ==
    LET id == m.tasks[i].id IN
    IF hasTmux
    THEN IF oc = "ok" /\ id \notin m.sessions
         THEN [m EXCEPT
                 !.sessions = @ \cup {id},
                 !.logs = [@ EXCEPT ![id] = Some(<<>>)],
                 !.monitors = @ \cup {id},
                 !.reg = Put(@, id, TmuxEntry),
                 !.tasks[i] = Stamp([@ EXCEPT !.status = "running", !.pid = Null])]
         ELSE LET k == TmuxSessionKill(m, id) IN
              [k EXCEPT
                 !.tasks[i] = Stamp([@ EXCEPT !.status = "completed",
                                              !.output = Some(tmuxErrorText(m.config))])]
    ELSE LET h == FreeHandle(m.procs, id) IN
         [m EXCEPT
            !.procs = @ \cup {[h |-> h, task |-> id,
                               st |-> IF oc = "ok" THEN "live" ELSE "failed"]},
            !.reg = Put(@, id, ProcEntry(h)),
            !.tasks[i] = Stamp([@ EXCEPT !.status = "running",
                                         !.pid = IF oc = "ok" THEN Some(h) ELSE Null])]

\* One iteration of pollTick's loop (first listing).
pollTask_S(m, i, oc) ==
    LET task == m.tasks[i]
        id == task.id
    IN
    IF task.status = "pending"
    THEN [spawnClaude_S(m, i, oc) EXCEPT !.changed = TRUE]
    ELSE IF task.status = "running" /\ id \notin DOMAIN m.reg
    THEN IF hasTmux
         THEN IF exists(m, id, oc)
              THEN [m EXCEPT !.monitors = @ \cup {id},
                             !.reg = Put(@, id, TmuxEntry)]
              ELSE [m EXCEPT
                      !.tasks[i] = Stamp([@ EXCEPT
                          !.status = "completed",
                          !.output = IF IsNull(@) \/ Val(@) = <<>>
                                     THEN Some(SessionEndedText) ELSE @,
                          !.pid = Null]),
                      !.changed = TRUE]
         ELSE [m EXCEPT
                 !.tasks[i] = Stamp([@ EXCEPT !.status = "pending", !.pid = Null]),
                 !.changed = TRUE]
    ELSE m

\* finishTask(taskId, rawOutput) on a freshly loaded task array ts; the
\* result is the array to save, or ts itself when nothing is saved.
finishTask(ts, taskId, rawOutput) ==
    LET i == findIndex(ts, taskId) IN
    IF i = 0 \/ ts[i].status # "running"
    THEN ts
    ELSE LET raw == IF rawOutput = <<>> THEN NoOutputText ELSE rawOutput
             output == truncateTail(stripAnsi_S(raw))
         IN  [ts EXCEPT ![i] = Stamp([@ EXCEPT !.output = Some(output),
                                               !.status = "completed",
                                               !.pid = Null])]

\* ----------------------------------------------- second listing: dispatch

\* spawnClaudeTmux.  oc: "ok", "fail" (tmux new-session fails) or "pipeFail"
\* (new-session succeeds, tmux pipe-pane fails).  new-session also fails
\* when a session of that name exists.
spawnClaudeTmux(m, i, oc) ==
    LET id == m.tasks[i].id
        unlinked == [m EXCEPT !.logs = [@ EXCEPT ![id] = Null]]
    IN
    IF oc = "ok" /\ id \notin m.sessions
    THEN [unlinked EXCEPT
            !.sessions = @ \cup {id},
            !.logs = [@ EXCEPT ![id] = Some(<<>>)],
            !.reg = Put(@, id, TmuxEntry),
            !.tasks[i] = Stamp([@ EXCEPT !.status = "running", !.pid = Null])]
    ELSE [unlinked EXCEPT
            !.sessions = IF oc = "pipeFail" THEN @ \cup {id} ELSE @,
            !.tasks[i] = Stamp([@ EXCEPT
                !.status = "review",
                !.output = Some(tmuxErrorText(m.config)),
                !.history = Append(@, [role |-> "claude",
                                       content |-> tmuxErrorText(m.config)])])]

\* spawnClaudeLegacy: spawn() returns a ChildProcess also when the binary is
\* missing ("fail"); the failure arrives later as the 'error' event.
spawnClaudeLegacy(m, i, oc) ==
    LET id == m.tasks[i].id
        h == FreeHandle(m.procs, id)
    IN
    [m EXCEPT
        !.procs = @ \cup {[h |-> h, task |-> id,
                           st |-> IF oc = "ok" THEN "live" ELSE "failed"]},
        !.reg = Put(@, id, ProcEntry(h)),
        !.tasks[i] = Stamp([@ EXCEPT !.status = "running",
                                     !.pid = IF oc = "ok" THEN Some(h) ELSE Null])]

spawnClaude_R(m, i, oc) ==
    IF hasTmux THEN spawnClaudeTmux(m, i, oc) ELSE spawnClaudeLegacy(m, i, oc)

\* The classification shared by finishTmuxTask (lines 628-635) and the close
\* callback (lines 776-783): match is the regular expression's result.
classify(task, match) ==
    IF ~IsNull(match)
    THEN [task EXCEPT !.status = "question", !.question = Some(trim(Val(match)))]
    ELSE [task EXCEPT !.status = "review", !.question = Null]

\* finishTmuxTask(task, tasks)
finishTmuxTask(m, i) ==
    LET id == m.tasks[i].id
        log == m.logs[id]
        read == IF IsNull(log) THEN NoOutputText ELSE stripAnsi_R(Val(log))
        output == truncateTail(read)
        t1 == classify([m.tasks[i] EXCEPT !.output = Some(output)],
                       questionMatch(output))
    IN
    [m EXCEPT
        !.tasks[i] = Stamp([t1 EXCEPT
            !.history = Append(@, [role |-> "claude", content |-> output]),
            !.pid = Null,
            !.feedback = Null]),
        !.reg = Del(@, id),
        !.logs = [@ EXCEPT ![id] = Null]]

\* One iteration of pollTick's loop (second listing).
pollTask_R(m, i, oc) ==
    LET task == m.tasks[i]
        id == task.id
    IN
    IF task.status = "pending"
    THEN [spawnClaude_R(m, i, oc) EXCEPT !.changed = TRUE]
    ELSE IF task.status = "running"
    THEN IF hasTmux /\ id \in DOMAIN m.reg /\ m.reg[id].kind = "tmux"
         THEN IF ~exists(m, id, oc)
              THEN [finishTmuxTask(m, i) EXCEPT !.changed = TRUE]
              ELSE m
         ELSE IF id \notin DOMAIN m.reg
         THEN [m EXCEPT
                 !.tasks[i] = Stamp([@ EXCEPT !.status = "pending", !.pid = Null]),
                 !.changed = TRUE]
         ELSE m
    ELSE m

\* --------------------------------------------------------------- pollTick

\* spawnClaude does part of its work outside any try block: loadConfig(),
\* path.resolve(config.workingDirectory), the write of the prompt file
\* (line 718), spawn()'s synchronous errors.  With oc = "throw" one of them
\* throws before anything has been done for the task, and the exception
\* leaves pollTick; path.resolve throws whenever the configured directory is
\* not a string.
pollTask(m, i, oc) ==
    IF m.tasks[i].status = "pending" /\ (oc = "throw" \/ ~m.config.workingDirectory.str)
    THEN [m EXCEPT !.threw = TRUE]
    ELSE IF iteration = "session" THEN pollTask_S(m, i, oc) ELSE pollTask_R(m, i, oc)

\* for (const task of tasks) { ... }: ocs gives, for each task that is
\* dispatched, what the environment does to its launch.
RECURSIVE pollLoop(_, _, _)
pollLoop(m, i, ocs) ==
    IF i > Len(m.tasks) \/ m.threw
    THEN m
    ELSE LET id == m.tasks[i].id
             oc == IF id \in DOMAIN ocs THEN ocs[id] ELSE "ok"
         IN  pollLoop(pollTask(m, i, oc), i + 1, ocs)

\* pollTick() started on world m: the world after the loop.  The caller
\* saves m.tasks when `changed` is set (if (changed) saveTasks(tasks)).
pollTick(m, ocs) == pollLoop([m EXCEPT !.changed = FALSE, !.threw = FALSE], 1, ocs)

PendingIds(ts) == { ts[i].id : i \in { j \in 1..Len(ts) : ts[j].status = "pending" } }

\* The running tasks whose session is there: a failing query matters for
\* them only.
QueryIds(ts) ==
    { ts[i].id : i \in { j \in 1..Len(ts) :
                            /\ hasTmux
                            /\ ts[j].status = "running"
                            /\ ts[j].id \in sessions } }

Outcomes == IF iteration = "review" /\ hasTmux
            THEN {"ok", "fail", "pipeFail", "throw"}
            ELSE {"ok", "fail", "throw"}

QueryOutcomes == {"ok", "queryFail"}

\* What the environment does during one tick on the tasks ts: an outcome
\* for every launch and for every session query.
Environments(ts) ==
    { ocs \in [PendingIds(ts) \cup QueryIds(ts) -> Outcomes \cup QueryOutcomes] :
        \A id \in DOMAIN ocs :
            ocs[id] \in (IF id \in PendingIds(ts) THEN Outcomes ELSE QueryOutcomes) }

\* ------------------------------------------------------------ action parts

\* The process-wide objects take the values of world m.
Commit(m) ==
    /\ runningProcesses' = m.reg
    /\ sessions' = m.sessions
    /\ logs' = m.logs
    /\ procs' = m.procs
    /\ monitors' = m.monitors

\* The exception of a dispatch leaves pollTick.
Throws(m, ocs) == pollTick(m, ocs).threw

\* pollTick() on world m, then `if (changed) saveTasks(tasks)`; already is
\* the number of saveTasks calls the handler made before it.  When the tick
\* throws nothing is saved: the file keeps m.tasks, while what the tick did
\* to sessions, files and the registry before the exception stays done.
RunTick(m, ocs, already) ==
    LET r == pollTick(m, ocs) IN
    /\ WithinBounds(r.tasks)
    /\ Cardinality(r.procs) <= MaxProcs
    /\ Commit(r)
    /\ tasks' = IF r.threw THEN m.tasks ELSE r.tasks
    /\ broadcasts' = IF r.threw THEN already
                     ELSE already + (IF r.changed THEN 1 ELSE 0)

\* An exception that no handler catches (there is no 'uncaughtException'
\* listener) ends the process: after pollTick() threw on world m in a timer,
\* nextTick or listen callback, the registry, the timers and every pending
\* callback are gone; the file keeps m.tasks, sessions, logs and running
\* child processes stay.
DiesInTick(m, ocs, already) ==
    LET r == pollTick(m, ocs) IN
    /\ serving' = FALSE
    /\ tasks' = m.tasks
    /\ runningProcesses' = << >>
    /\ sessions' = r.sessions
    /\ logs' = r.logs
    /\ procs' = Orphaned(r.procs)
    /\ monitors' = {}
    /\ pollingRunning' = FALSE
    /\ pollingTimer' = FALSE
    /\ timers' = 0
    /\ timerDelay' = 0
    /\ broadcasts' = already

\* startPolling(); an exception of pollTick() leaves it before the timer is
\* installed.
startPolling(ocs) ==
    IF pollingRunning
    THEN /\ UNCHANGED << tasks, runningProcesses, sessions, logs, procs, monitors,
                         pollingRunning, pollingTimer, timers, timerDelay >>
         /\ broadcasts' = 0
    ELSE /\ pollingRunning' = TRUE
         /\ RunTick(World, ocs, 0)
         /\ IF Throws(World, ocs)
            THEN UNCHANGED << pollingTimer, timers, timerDelay >>
            ELSE /\ pollingTimer' = TRUE
                 /\ timers' = timers + 1
                 /\ timerDelay' = setIntervalDelay(config.pollingInterval)

\* stopPolling()
stopPolling ==
    /\ pollingRunning' = FALSE
    /\ pollingTimer' = FALSE
    /\ timers' = IF pollingTimer THEN timers - 1 ELSE timers
    /\ timerDelay' = IF pollingTimer THEN 0 ELSE timerDelay

FixedEnv == UNCHANGED << scope, iteration, hasTmux >>

Scheduler == << pollingRunning, pollingTimer, timers, timerDelay >>

Handles == << runningProcesses, sessions, logs, procs, monitors >>

\* ------------------------------------------------------ scheduler actions

\* app.listen's callback: startPolling() in the fresh process.
Listen ==
    /\ ~serving
    /\ \E ocs \in Environments(tasks) :
          IF Throws(World, ocs)
          THEN DiesInTick(World, ocs, 0)
          ELSE serving' = TRUE /\ startPolling(ocs)
    /\ response' = "none"
    /\ UNCHANGED nextId
    /\ UNCHANGED config
    /\ FixedEnv

\* The recurring timer fires: pollTick().
TimerTick ==
    /\ serving
    /\ timers > 0
    /\ \E ocs \in Environments(tasks) :
          IF Throws(World, ocs)
          THEN DiesInTick(World, ocs, 0)
          ELSE RunTick(World, ocs, 0) /\ UNCHANGED << serving, Scheduler >>
    /\ response' = "none"
    /\ UNCHANGED nextId
    /\ UNCHANGED config
    /\ FixedEnv

\* POST /api/polling/start
StartPolling ==
    /\ serving
    /\ \E ocs \in Environments(tasks) :
          /\ startPolling(ocs)
          /\ response' = Sent(IF ~pollingRunning /\ Throws(World, ocs) THEN "500" ELSE "200")
    /\ UNCHANGED << serving, nextId >>
    /\ UNCHANGED config
    /\ FixedEnv

\* POST /api/polling/stop
StopPolling ==
    /\ serving
    /\ stopPolling
    /\ response' = Sent("200")
    /\ broadcasts' = 0
    /\ UNCHANGED << serving, nextId, tasks, Handles >>
    /\ UNCHANGED config
    /\ FixedEnv

\* The supervising process dies without running its shutdown handler; the
\* registry, the timers and every pending callback die with it, tmux
\* sessions, files and running child processes stay.
Crash ==
    /\ serving
    /\ serving' = FALSE
    /\ runningProcesses' = << >>
    /\ pollingRunning' = FALSE
    /\ pollingTimer' = FALSE
    /\ timers' = 0
    /\ timerDelay' = 0
    /\ monitors' = {}
    /\ procs' = Orphaned(procs)
    /\ response' = "none"
    /\ broadcasts' = 0
    /\ UNCHANGED << tasks, nextId, sessions, logs >>
    /\ UNCHANGED config
    /\ FixedEnv

\* shutdown() on SIGINT / SIGTERM: every registry entry is killed, then the
\* process exits.  The first listing calls entry.kill() (TmuxSession.kill
\* removes the files too); the second kills the session or the process.
Shutdown ==
    /\ serving
    /\ serving' = FALSE
    /\ runningProcesses' = << >>
    /\ pollingRunning' = FALSE
    /\ pollingTimer' = FALSE
    /\ timers' = 0
    /\ timerDelay' = 0
    /\ monitors' = {}
    /\ procs' = Orphaned({ p \in procs :
                            ~(/\ p.task \in DOMAIN runningProcesses
                              /\ runningProcesses[p.task] = ProcEntry(p.h)) })
    /\ sessions' = sessions \ { id \in DOMAIN runningProcesses :
                                  runningProcesses[id].kind = "tmux" }
    /\ logs' = [id \in Ids |->
                  IF /\ iteration = "session"
                     /\ id \in DOMAIN runningProcesses
                     /\ runningProcesses[id].kind = "tmux"
                  THEN Null ELSE logs[id]]
    /\ response' = "none"
    /\ broadcasts' = 0
    /\ UNCHANGED << tasks, nextId >>
    /\ UNCHANGED config
    /\ FixedEnv

\* ------------------------------------------------------------ the workers

\* The worker in session id writes; tmux pipe-pane appends it to the log.
WorkerWrites ==
    \E id \in sessions, o \in WorkerTexts \ {<<>>} :
        /\ logs[id] = Some(<<>>)
        /\ logs' = [logs EXCEPT ![id] = Some(o)]
        /\ response' = "none"
        /\ broadcasts' = 0
        /\ UNCHANGED << serving, tasks, nextId, runningProcesses, sessions, procs,
                        monitors, Scheduler >>
        /\ UNCHANGED config
        /\ FixedEnv

\* The worker exits (or the session is closed): the session is gone.
SessionEnds ==
    \E id \in sessions :
        /\ sessions' = sessions \ {id}
        /\ response' = "none"
        /\ broadcasts' = 0
        /\ UNCHANGED << serving, tasks, nextId, runningProcesses, logs, procs,
                        monitors, Scheduler >>
        /\ UNCHANGED config
        /\ FixedEnv

\* A child process that outlived its supervisor exits.
OrphanExits ==
    \E p \in procs :
        /\ p.st = "orphan"
        /\ procs' = procs \ {p}
        /\ response' = "none"
        /\ broadcasts' = 0
        /\ UNCHANGED << serving, tasks, nextId, runningProcesses, sessions, logs,
                        monitors, Scheduler >>
        /\ UNCHANGED config
        /\ FixedEnv

\* What a child process has produced when it closes.
ProcResults ==
    { [stdout |-> o, stderr |-> <<>>, code |-> 0] : o \in WorkerTexts \ {<<>>} }
      \cup { [stdout |-> <<>>, stderr |-> <<>>, code |-> 1],
             [stdout |-> <<>>, stderr |-> <<>>, code |-> 0] }

\* A process that never started, or was killed, closes with no output and
\* no zero exit code.
DeadResult == [stdout |-> <<>>, stderr |-> <<>>, code |-> 1]

ResultsOf(p) == IF p.st = "live" THEN ProcResults ELSE {DeadResult}

\* stdout || stderr || (code !== 0 ? `(process exited with code ${code})` : '(no output)')
closeOutput(r) ==
    IF r.stdout # <<>> THEN r.stdout
    ELSE IF r.stderr # <<>> THEN r.stderr
    ELSE IF r.code # 0 THEN ExitCodeText
    ELSE NoOutputText

\* ---------------------------------------------- child process callbacks

\* proc.on('close') of the first listing (lines 288-292).
ProcClose_S ==
    \E p \in procs :
    \E r \in ResultsOf(p) :
        LET saved == finishTask(tasks, p.task, closeOutput(r)) IN
        /\ iteration = "session"
        /\ serving
        /\ p.st \notin {"failed", "orphan"}
        /\ WithinBounds(saved)
        /\ procs' = procs \ {p}
        /\ runningProcesses' = Del(runningProcesses, p.task)
        /\ tasks' = saved
        /\ broadcasts' = IF saved # tasks THEN 1 ELSE 0
        /\ response' = "none"
        /\ UNCHANGED << serving, nextId, sessions, logs, monitors, Scheduler >>
        /\ UNCHANGED config
        /\ FixedEnv

\* proc.on('error') of the first listing (lines 294-297).
ProcError_S ==
    \E p \in procs :
        LET saved == finishTask(tasks, p.task, SpawnErrorText) IN
        /\ iteration = "session"
        /\ serving
        /\ p.st = "failed"
        /\ WithinBounds(saved)
        /\ procs' = (procs \ {p}) \cup {[p EXCEPT !.st = "errored"]}
        /\ runningProcesses' = Del(runningProcesses, p.task)
        /\ tasks' = saved
        /\ broadcasts' = IF saved # tasks THEN 1 ELSE 0
        /\ response' = "none"
        /\ UNCHANGED << serving, nextId, sessions, logs, monitors, Scheduler >>
        /\ UNCHANGED config
        /\ FixedEnv

\* The body of the second listing's close callback after loadTasks (lines
\* 769-790): the array to save, or ts itself when the task is gone.
closeCallback(ts, taskId, output) ==
    LET i == findIndex(ts, taskId) IN
    IF i = 0
    THEN ts
    ELSE LET t1 == classify([ts[i] EXCEPT !.output = Some(truncateTail(output))],
                            questionMatch(output))
         IN  [ts EXCEPT ![i] = Stamp([t1 EXCEPT
                 !.history = Append(@, [role |-> "claude", content |-> output]),
                 !.pid = Null,
                 !.feedback = Null])]

\* The body of the second listing's error callback (lines 795-804).
errorCallback(ts, taskId) ==
    LET i == findIndex(ts, taskId) IN
    IF i = 0
    THEN ts
    ELSE [ts EXCEPT ![i] = Stamp([@ EXCEPT
             !.status = "review",
             !.output = Some(SpawnErrorText),
             !.history = Append(@, [role |-> "claude", content |-> SpawnErrorText]),
             !.pid = Null])]

\* proc.on('close') of the second listing (lines 767-791).
ProcClose_R ==
    \E p \in procs :
    \E r \in ResultsOf(p) :
        LET saved == closeCallback(tasks, p.task, closeOutput(r)) IN
        /\ iteration = "review"
        /\ serving
        /\ p.st \notin {"failed", "orphan"}
        /\ WithinBounds(saved)
        /\ procs' = procs \ {p}
        /\ runningProcesses' = Del(runningProcesses, p.task)
        /\ tasks' = saved
        /\ broadcasts' = IF saved # tasks THEN 1 ELSE 0
        /\ response' = "none"
        /\ UNCHANGED << serving, nextId, sessions, logs, monitors, Scheduler >>
        /\ UNCHANGED config
        /\ FixedEnv

\* proc.on('error') of the second listing (lines 793-805).
ProcError_R ==
    \E p \in procs :
        LET saved == errorCallback(tasks, p.task) IN
        /\ iteration = "review"
        /\ serving
        /\ p.st = "failed"
        /\ WithinBounds(saved)
        /\ procs' = (procs \ {p}) \cup {[p EXCEPT !.st = "errored"]}
        /\ runningProcesses' = Del(runningProcesses, p.task)
        /\ tasks' = saved
        /\ broadcasts' = IF saved # tasks THEN 1 ELSE 0
        /\ response' = "none"
        /\ UNCHANGED << serving, nextId, sessions, logs, monitors, Scheduler >>
        /\ UNCHANGED config
        /\ FixedEnv

\* TmuxSession._startMonitor's interval callback finding the session gone
\* (lines 167-174): stop the monitor, finishTask with the log, remove the
\* files, drop the registry entry.  A callback that finds the session does
\* nothing.
Monitor_S ==
    \E id \in monitors, oc \in QueryOutcomes :
        LET raw == IF IsNull(logs[id]) THEN <<>> ELSE Val(logs[id])
            saved == finishTask(tasks, id, raw)
        IN
        /\ serving
        /\ ~exists(World, id, oc)
        /\ WithinBounds(saved)
        /\ monitors' = monitors \ {id}
        /\ tasks' = saved
        /\ logs' = [logs EXCEPT ![id] = Null]
        /\ runningProcesses' = Del(runningProcesses, id)
        /\ broadcasts' = IF saved # tasks THEN 1 ELSE 0
        /\ response' = "none"
        /\ UNCHANGED << serving, nextId, sessions, procs, Scheduler >>
        /\ UNCHANGED config
        /\ FixedEnv

\* ---------------------------------------------------------- the task API

\* Request bodies: the title / description part of a PATCH.
NoEdit == [title |-> Null, description |-> Null]

Edits ==
    IF scope = "deep"
    THEN { NoEdit, [title |-> Some("t2"), description |-> Some("d2")] }
    ELSE { NoEdit }

applyEdit(task, e) ==
    [task EXCEPT !.title = IF IsNull(e.title) THEN @ ELSE Val(e.title),
                 !.description = IF IsNull(e.description) THEN @ ELSE Val(e.description)]

\* Statuses a client may ask for, and feedback values it may send
\* (absent, the empty string, a text).
Statuses == {"pending", "running", "review", "question", "completed"}

Feedbacks == { Null, Some(<<>>), Some(<<"f">>) }

\* A test for presence only, which lets the empty string through.
Truthy_Present(o) == ~IsNull(o)

Truthy(o) == ~IsNull(o) /\ Val(o) # <<>>

\* The record POST /api/tasks builds.  The first listing's record has no
\* question, feedback and history fields; they are Null and empty here.
newTask(id, title) ==
    [ id |-> id, title |-> title, description |-> "", status |-> "pending",
      output |-> Null, question |-> Null, feedback |-> Null, history |-> << >>,
      pid |-> Null, updatedAt |-> 0 ]

\* POST /api/tasks of the first listing (lines 331-350), with a title (the
\* request without one is refused and changes nothing): the task is saved
\* and process.nextTick(pollTick) runs a tick right after the handler.
CreateTask_S ==
    /\ iteration = "session"
    /\ serving
    /\ nextId < TaskLimit
    /\ LET created == Append(tasks, newTask(nextId + 1, "t1"))
           m == [World EXCEPT !.tasks = created]
       IN  \E ocs \in Environments(created) :
              IF Throws(m, ocs)
              THEN DiesInTick(m, ocs, 1)
              ELSE RunTick(m, ocs, 1) /\ UNCHANGED << serving, Scheduler >>
    /\ nextId' = nextId + 1
    /\ response' = Sent("201")
    /\ UNCHANGED config
    /\ FixedEnv

\* POST /api/tasks of the second listing (lines 846-867).
CreateTask_R ==
    /\ iteration = "review"
    /\ serving
    /\ nextId < TaskLimit
    /\ tasks' = Append(tasks, newTask(nextId + 1, "t1"))
    /\ nextId' = nextId + 1
    /\ response' = Sent("201")
    /\ broadcasts' = 1
    /\ UNCHANGED << serving, Handles, Scheduler >>
    /\ UNCHANGED config
    /\ FixedEnv

\* PATCH /api/tasks/:id of the first listing (lines 352-364).
patch_S(ts, id, e) ==
    LET i == findIndex(ts, id) IN
    IF i = 0
    THEN [code |-> "404", tasks |-> ts]
    ELSE [code |-> "200", tasks |-> [ts EXCEPT ![i] = Stamp(applyEdit(@, e))]]

PatchTask_S ==
    \E id \in Ids, e \in Edits :
        LET r == patch_S(tasks, id, e) IN
        /\ iteration = "session"
        /\ serving
        /\ WithinBounds(r.tasks)
        /\ tasks' = r.tasks
        /\ response' = Sent(r.code)
        /\ broadcasts' = IF r.code = "200" THEN 1 ELSE 0
        /\ UNCHANGED << serving, nextId, Handles, Scheduler >>
        /\ UNCHANGED config
        /\ FixedEnv

\* A table that also lets a question be approved.
validTransitions_QuestionApprove(from) ==
    CASE from = "review" -> {"completed", "pending"}
      [] from = "question" -> {"pending", "completed"}
      [] from = "pending" -> {"pending"}
      [] OTHER -> {}

\* const validTransitions = { review: [...], question: [...], pending: [...] }
validTransitions(from) ==
    CASE from = "review" -> {"completed", "pending"}
      [] from = "question" -> {"pending"}
      [] from = "pending" -> {"pending"}
      [] OTHER -> {}

\* A handler that assigns title and description and saves before it looks
\* at the requested status.
patch_R_EditFirst(ts, id, status, feedback, e) ==
    LET i == findIndex(ts, id) IN
    IF i = 0
    THEN [code |-> "404", tasks |-> ts, saves |-> 0]
    ELSE
    LET task == Stamp(applyEdit(ts[i], e))
        saved == [ts EXCEPT ![i] = task] IN
    IF IsNull(status)
    THEN [code |-> "200", saves |-> 1, tasks |-> saved]
    ELSE IF Val(status) \notin validTransitions(task.status)
    THEN [code |-> "400 cannot transition", tasks |-> saved, saves |-> 1]
    ELSE IF task.status \in {"review", "question"} /\ Val(status) = "pending"
    THEN IF ~Truthy(feedback)
         THEN [code |-> "400 feedback is required", tasks |-> ts, saves |-> 0]
         ELSE [code |-> "200", saves |-> 1,
               tasks |-> [ts EXCEPT ![i] =
                   [task EXCEPT !.feedback = feedback,
                                !.history = Append(@, [role |-> "user",
                                                       content |-> Val(feedback)]),
                                !.status = Val(status)]]]
    ELSE [code |-> "200", saves |-> 1,
          tasks |-> [ts EXCEPT ![i] = [task EXCEPT !.status = Val(status)]]]

\* PATCH /api/tasks/:id of the second listing (lines 869-910).  status is
\* Null when the body has none.  The result: the response, the task array
\* as it is on disk afterwards, and the number of saveTasks calls.
patch_R(ts, id, status, feedback, e) ==
    LET i == findIndex(ts, id) IN
    IF i = 0
    THEN [code |-> "404", tasks |-> ts, saves |-> 0]
    ELSE
    LET task == ts[i] IN
    IF IsNull(status)
    THEN [code |-> "200", saves |-> 1,
          tasks |-> [ts EXCEPT ![i] = Stamp(applyEdit(task, e))]]
    ELSE IF Val(status) \notin validTransitions(task.status)
    THEN [code |-> "400 cannot transition", tasks |-> ts, saves |-> 0]
    ELSE IF task.status \in {"review", "question"} /\ Val(status) = "pending"
    THEN IF ~Truthy(feedback)
         THEN [code |-> "400 feedback is required", tasks |-> ts, saves |-> 0]
         ELSE LET t1 == [task EXCEPT
                            !.feedback = feedback,
                            !.history = Append(@, [role |-> "user",
                                                   content |-> Val(feedback)]),
                            !.status = Val(status)]
              IN  [code |-> "200", saves |-> 1,
                   tasks |-> [ts EXCEPT ![i] = Stamp(applyEdit(t1, e))]]
    ELSE [code |-> "200", saves |-> 1,
          tasks |-> [ts EXCEPT ![i] =
                        Stamp(applyEdit([task EXCEPT !.status = Val(status)], e))]]

\* The handler reads feedback only when the requested status is pending.
\* Outside the "deep" configuration the requests are: no status, approve,
\* reject with and without feedback.
Requests ==
    IF scope = "deep"
    THEN { [status |-> Some("pending"), feedback |-> f] : f \in Feedbacks }
           \cup { [status |-> st, feedback |-> Null] :
                     st \in {Null} \cup { Some(s) : s \in Statuses \ {"pending"} } }
    ELSE { [status |-> Null, feedback |-> Null],
           [status |-> Some("completed"), feedback |-> Null],
           [status |-> Some("pending"), feedback |-> Null],
           [status |-> Some("pending"), feedback |-> Some(<<"f">>)] }

\* One PATCH request of the second listing.
PatchRequest_R(id, req, e) ==
    LET r == patch_R(tasks, id, req.status, req.feedback, e) IN
    /\ iteration = "review"
    /\ serving
    /\ WithinBounds(r.tasks)
    /\ tasks' = r.tasks
    /\ response' = Sent(r.code)
    /\ broadcasts' = r.saves
    /\ UNCHANGED << serving, nextId, Handles, Scheduler >>
    /\ UNCHANGED config
    /\ FixedEnv

PatchTask_R == \E id \in Ids, req \in Requests, e \in Edits : PatchRequest_R(id, req, e)

\* entry.kill() of the first listing: TmuxSession.kill or ChildProcess.kill.
killEntry_S(m, id) ==
    IF m.reg[id].kind = "tmux"
    THEN TmuxSessionKill(m, id)
    ELSE [m EXCEPT !.procs = KillProc(@, id, m.reg[id].h)]

\* The kill branch of the second listing's DELETE (lines 919-929).
killEntry_R(m, id) ==
    IF m.reg[id].kind = "tmux"
    THEN [m EXCEPT !.sessions = @ \ {id}, !.logs = [@ EXCEPT ![id] = Null]]
    ELSE [m EXCEPT !.procs = KillProc(@, id, m.reg[id].h)]

\* DELETE /api/tasks/:id (lines 366-381 and 912-934).
deleteTask(m, id) ==
    LET i == findIndex(m.tasks, id) IN
    IF i = 0
    THEN m
    ELSE LET k == IF id \in DOMAIN m.reg
                  THEN IF iteration = "session"
                       THEN killEntry_S(m, id) ELSE killEntry_R(m, id)
                  ELSE m
         IN  [k EXCEPT !.reg = Del(@, id),
                       !.tasks = SubSeq(@, 1, i - 1) \o SubSeq(@, i + 1, Len(@)),
                       !.changed = TRUE]

\* One DELETE request.
DeleteRequest(id) ==
    LET r == deleteTask(World, id) IN
    /\ serving
    /\ Commit(r)
    /\ tasks' = r.tasks
    /\ response' = Sent(IF r.changed THEN "200" ELSE "404")
    /\ broadcasts' = IF r.changed THEN 1 ELSE 0
    /\ UNCHANGED << serving, nextId, Scheduler >>
    /\ UNCHANGED config
    /\ FixedEnv

DeleteTask == \E id \in Ids : DeleteRequest(id)

\* POST /api/tasks/:id/stop (first listing only, lines 384-408).
stopTask(m, id) ==
    LET i == findIndex(m.tasks, id) IN
    IF i = 0
    THEN [code |-> "404", m |-> m]
    ELSE IF m.tasks[i].status # "running"
    THEN [code |-> "400 task is not running", m |-> m]
    ELSE LET hasEntry == id \in DOMAIN m.reg
             log == IF hasEntry /\ m.reg[id].kind = "tmux" /\ ~IsNull(m.logs[id])
                    THEN stripAnsi_S(Val(m.logs[id])) ELSE <<>>
             output == IF log # <<>> THEN log ELSE StoppedText
             k == IF hasEntry THEN killEntry_S(m, id) ELSE m
         IN  [code |-> "200",
              m |-> [k EXCEPT !.tasks[i] = Stamp([@ EXCEPT
                        !.status = "completed",
                        !.output = Some(truncateTail(output)),
                        !.pid = Null])]]

\* One stop request.
StopRequest(id) ==
    LET r == stopTask(World, id) IN
    /\ iteration = "session"
    /\ serving
    /\ WithinBounds(r.m.tasks)
    /\ Commit(r.m)
    /\ tasks' = r.m.tasks
    /\ response' = Sent(r.code)
    /\ broadcasts' = IF r.code = "200" THEN 1 ELSE 0
    /\ UNCHANGED << serving, nextId, Scheduler >>
    /\ UNCHANGED config
    /\ FixedEnv

StopTask == \E id \in Ids : StopRequest(id)

\* ------------------------------------------------------------ the config API

\* A value of a request body's field: absent, a number, or a string.
Undefined == [t |-> "undefined", n |-> 0, s |-> << >>]

NumberValue(n) == [t |-> "number", n |-> n, s |-> << >>]

StringValue(s) == [t |-> "string", n |-> 0, s |-> s]

\* A directory name so long that a command line holding it exceeds the
\* output cap (the default body limit of express.json is 100kb).
LongDir == [k \in 1..OutputCap |-> "d"]

\* The bodies of PATCH /api/config that are sent.
ConfigBodies ==
    IF scope = "config"
    THEN [ pollingInterval :
             { Undefined, NumberValue(1), NumberValue(0), NumberValue(-1),
               StringValue(<<"1">>), StringValue(<<"x">>) },
           workingDirectory :
             { Undefined, StringValue(LongDir), NumberValue(1) } ]
    ELSE { [pollingInterval |-> Undefined, workingDirectory |-> Undefined] }

Digits == <<"0", "1", "2", "3", "4", "5", "6", "7", "8", "9">>

\* The value of a string of decimal digits.
RECURSIVE Decimal(_)
Decimal(s) ==
    IF s = << >>
    THEN 0
    ELSE 10 * Decimal(SubSeq(s, 1, Len(s) - 1))
         + (CHOOSE d \in 0..9 : Digits[d + 1] = s[Len(s)])

\* Number(v) for a number or a string, as JSON.stringify then writes it: a
\* number is itself, a string of digits its value, the empty string 0, any
\* other string NaN, which is written as null.
Number(v) ==
    IF v.t = "number" THEN JNumber(v.n)
    ELSE IF \A k \in 1..Len(v.s) : \E d \in 1..10 : Digits[d] = v.s[k]
    THEN JNumber(Decimal(v.s))
    ELSE JNull

\* The config the handler saves (lines 461-465 and 969-973).
patchConfig(cfg, body) ==
    [ pollingInterval |->
          IF body.pollingInterval.t = "undefined" THEN cfg.pollingInterval
          ELSE Number(body.pollingInterval),
      workingDirectory |->
          IF body.workingDirectory.t = "undefined" THEN cfg.workingDirectory
          ELSE IF body.workingDirectory.t = "string"
          THEN DirString(body.workingDirectory.s)
          ELSE NotAString ]

\* stopPolling(); startPolling() with the saved config (lines 467-470 and
\* 975-978): the old timer is cleared, one tick runs, a timer is installed
\* unless the tick threw.
restartPolling(m, ocs) ==
    LET cleared == IF pollingTimer THEN timers - 1 ELSE timers IN
    /\ pollingRunning' = TRUE
    /\ RunTick(m, ocs, 0)
    /\ IF Throws(m, ocs)
       THEN /\ pollingTimer' = FALSE
            /\ timers' = cleared
            /\ timerDelay' = IF pollingTimer THEN 0 ELSE timerDelay
       ELSE /\ pollingTimer' = TRUE
            /\ timers' = cleared + 1
            /\ timerDelay' = setIntervalDelay(m.config.pollingInterval)

\* One PATCH /api/config request (lines 460-474 and 968-982).
ConfigRequest(body) ==
    LET m == [World EXCEPT !.config = patchConfig(config, body)] IN
    /\ serving
    /\ config' = m.config
    /\ IF pollingRunning
       THEN \E ocs \in Environments(tasks) :
               /\ restartPolling(m, ocs)
               /\ response' = Sent(IF Throws(m, ocs) THEN "500" ELSE "200")
       ELSE /\ UNCHANGED << tasks, Handles, Scheduler >>
            /\ broadcasts' = 0
            /\ response' = Sent("200")
    /\ UNCHANGED << serving, nextId >>
    /\ FixedEnv

ConfigPatch == \E body \in ConfigBodies : ConfigRequest(body)

\* ------------------------------------------------------------ the program

\* A fresh installation: no tasks file, the process started but app.listen
\* has not called back yet.
Init ==
    /\ scope \in {"deep", "wide", "config"}
    /\ iteration \in {"session", "review"}
    /\ hasTmux \in BOOLEAN
    /\ serving = FALSE
    /\ tasks = << >>
    /\ nextId = 0
    /\ runningProcesses = << >>
    /\ pollingRunning = FALSE
    /\ pollingTimer = FALSE
    /\ timers = 0
    /\ timerDelay = 0
    /\ config = defaults
    /\ monitors = {}
    /\ sessions = {}
    /\ logs = [id \in Ids |-> Null]
    /\ procs = {}
    /\ response = "none"
    /\ broadcasts = 0

Next ==
    \/ Listen
    \/ TimerTick
    \/ StartPolling
    \/ StopPolling
    \/ Crash
    \/ Shutdown
    \/ WorkerWrites
    \/ SessionEnds
    \/ OrphanExits
    \/ ProcClose_S
    \/ ProcError_S
    \/ ProcClose_R
    \/ ProcError_R
    \/ Monitor_S
    \/ CreateTask_S
    \/ CreateTask_R
    \/ PatchTask_S
    \/ PatchTask_R
    \/ DeleteTask
    \/ StopTask
    \/ ConfigPatch

Spec == Init /\ [][Next]_vars

\* The same program observed in one scope only.
InitDeep == Init /\ scope = "deep"

SpecDeep == InitDeep /\ [][Next]_vars

InitConfig == Init /\ scope = "config"

SpecConfig == InitConfig /\ [][Next]_vars

InitWide == Init /\ scope = "wide"

SpecWide == InitWide /\ [][Next]_vars

\* ------------------------------------------------------------------
\* Properties of the transition requests (PATCH with a status).

\* The rows of the lifecycle table, and the rows a user triggers.
TableRows ==
    { <<"pending", "running">>, <<"running", "review">>, <<"running", "question">>,
      <<"review", "completed">>, <<"review", "pending">>, <<"question", "pending">> }

UserRows ==
    { <<"review", "completed">>, <<"review", "pending">>, <<"question", "pending">> }

\* Feedback that is present and not the empty string.
NonEmpty(fb) == fb \notin { Null, Some(<<>>) }

\* A request for a status on an existing task: every pair outside the table
\* and outside `accepted` is refused as an invalid transition, and every
\* user row with its guard satisfied succeeds and ends in the requested
\* status.
TransitionsExact(accepted) ==
    \A id \in Ids, req \in Requests, e \in Edits :
        (/\ findIndex(tasks, id) # 0
         /\ ~IsNull(req.status)
         /\ PatchRequest_R(id, req, e))
        => LET i == findIndex(tasks, id)
               from == tasks[i].status
               to == Val(req.status)
           IN  /\ <<from, to>> \notin (TableRows \cup accepted)
                    => response' = "400 cannot transition"
               /\ (<<from, to>> \in UserRows /\ (to = "pending" => NonEmpty(req.feedback)))
                    => (response' = "200" /\ tasks'[i].status = to)

\* C1 as stated: every (current, requested) pair that is not a row of the
\* table, pending->pending included, is refused with the invalid-transition
\* error, and every user row with its guard satisfied succeeds and leaves
\* the task in the requested status.
C1_AsStated == [][TransitionsExact({})]_vars

\* C1 amended: as stated, except that a request for pending on a pending
\* task is accepted and leaves the task pending; every other pair outside
\* the table is refused with the invalid-transition error, and every user
\* row with its guard satisfied succeeds.
C1_TransitionTable ==
    [][/\ TransitionsExact({ <<"pending", "pending">> })
       /\ \A id \in Ids, req \in Requests, e \in Edits :
            (/\ findIndex(tasks, id) # 0
             /\ tasks[findIndex(tasks, id)].status = "pending"
             /\ req.status = Some("pending")
             /\ PatchRequest_R(id, req, e))
            => (response' = "200" /\ tasks'[findIndex(tasks, id)].status = "pending")]_vars

\* A review has just been approved.
C1_Witness ==
    /\ iteration = "review"
    /\ response = "200"
    /\ \E i \in 1..Len(tasks) : tasks[i].status = "completed"

\* C2: a transition request refused as invalid leaves the task array (status,
\* feedback, history, title, description and modification time of every
\* task), the saved file and the handle registry as they were and broadcasts
\* nothing, whatever title or description the request carries.
C2_RejectedChangesNothing ==
    [][\A id \in Ids, req \in Requests, e \in Edits :
           (response' = "400 cannot transition" /\ PatchRequest_R(id, req, e))
           => /\ tasks' = tasks
              /\ runningProcesses' = runningProcesses
              /\ broadcasts' = 0]_vars

\* A request on a running task with a registered handle has been refused.
C2_Witness ==
    /\ scope = "deep"
    /\ response = "400 cannot transition"
    /\ \E i \in 1..Len(tasks) :
          /\ tasks[i].status = "running"
          /\ tasks[i].id \in DOMAIN runningProcesses

\* C3: a request for pending on a task in review or question is refused with
\* the missing-feedback error when the feedback is absent or empty, and the
\* task keeps its status, feedback and history; with non-empty feedback it
\* succeeds, the task is pending, the feedback is stored and exactly one
\* user entry holding the feedback is appended to the end of the history.
C3_FeedbackRequired ==
    [][\A id \in Ids, req \in Requests, e \in Edits :
           (/\ findIndex(tasks, id) # 0
            /\ tasks[findIndex(tasks, id)].status \in {"review", "question"}
            /\ req.status = Some("pending")
            /\ PatchRequest_R(id, req, e))
           => LET i == findIndex(tasks, id) IN
              IF NonEmpty(req.feedback)
              THEN /\ response' = "200"
                   /\ tasks'[i].status = "pending"
                   /\ tasks'[i].feedback = req.feedback
                   /\ tasks'[i].history =
                         Append(tasks[i].history,
                                [role |-> "user", content |-> Val(req.feedback)])
              ELSE /\ response' = "400 feedback is required"
                   /\ tasks'[i].status = tasks[i].status
                   /\ tasks'[i].feedback = tasks[i].feedback
                   /\ tasks'[i].history = tasks[i].history]_vars

\* A review or a question has just been sent back with feedback.
C3_Witness ==
    /\ response = "200"
    /\ \E i \in 1..Len(tasks) :
          /\ tasks[i].status = "pending"
          /\ tasks[i].feedback = Some(<<"f">>)
          /\ tasks[i].history # <<>>
          /\ tasks[i].history[Len(tasks[i].history)] =
                [role |-> "user", content |-> <<"f">>]

\* ------------------------------------------------------------------
\* Properties of the lifecycle.

\* The table's edges with the recovery demotion and the dispatch-error
\* completion into review.
LifecycleEdges ==
    TableRows \cup { <<"running", "pending">>, <<"pending", "review">> }

\* The task of the next state that has the identity of tasks[i], as a set.
Later(i) == { j \in 1..Len(tasks') : tasks'[j].id = tasks[i].id }

\* C4 as stated: every task's status is one of the five, and every change
\* of the status of a task is an edge of the table, the recovery demotion
\* running->pending or the dispatch-error completion pending->review.
C4_AsStated ==
    [][\A i \in 1..Len(tasks) : \A j \in Later(i) :
           /\ tasks'[j].status \in Statuses
           /\ \/ tasks'[j].status = tasks[i].status
              \/ <<tasks[i].status, tasks'[j].status>> \in LifecycleEdges]_vars

\* C5 as stated: once a task is completed, no step changes its status, its
\* output or its history while the task exists.
C5_AsStated ==
    [][\A i \in 1..Len(tasks) : \A j \in Later(i) :
           tasks[i].status = "completed"
           => /\ tasks'[j].status = "completed"
              /\ tasks'[j].output = tasks[i].output
              /\ tasks'[j].history = tasks[i].history]_vars

\* C6 as stated: every task whose status is question has a question text
\* that is not empty after trimming.
C6_AsStated ==
    \A i \in 1..Len(tasks) :
        tasks[i].status = "question"
        => (~IsNull(tasks[i].question) /\ trim(Val(tasks[i].question)) # <<>>)

\* The places of a text where a line starts with the marker, and the rest
\* of the line after the marker at place p.
MarkerLines(s) ==
    { p \in 1..Len(s) : s[p] = MARK /\ (p = 1 \/ s[p - 1] \in LineTerminators) }

RestOfLine(s, p) ==
    LET ends == { k \in (p + 1)..Len(s) : s[k] \in LineTerminators }
    IN  SubSeq(s, p + 1, IF ends = {} THEN Len(s) ELSE SetMin(ends) - 1)

FailureTexts == { Some(tmuxErrorText(defaults)), Some(SpawnErrorText) }

\* C7 as stated: when a running task is reconciled with the output of its
\* worker (a worker entry is appended to its history), the task is a
\* question exactly when the sanitized, truncated output kept on the task
\* has a line starting with the marker, its question is then the rest of the
\* first such line, trimmed; otherwise the task is in review with no
\* question.
C7_AsStated ==
    [][\A i \in 1..Len(tasks) : \A j \in Later(i) :
           (/\ tasks[i].status = "running"
            /\ tasks'[j].status \in {"review", "question"}
            /\ tasks'[j].output \notin FailureTexts
            /\ Len(tasks'[j].history) = Len(tasks[i].history) + 1)
           => LET o == Val(tasks'[j].output)
                  lines == MarkerLines(o)
              IN  IF lines # {}
                  THEN /\ tasks'[j].status = "question"
                       /\ tasks'[j].question = Some(trim(RestOfLine(o, SetMin(lines))))
                  ELSE /\ tasks'[j].status = "review"
                       /\ tasks'[j].question = Null]_vars

\* Every task of ts0 that is pending is, in the next state, running with an
\* entry in the registry or in review with the error text of a failed
\* dispatch.
Dispatched(ts0) ==
    \A i \in 1..Len(ts0) :
        ts0[i].status = "pending"
        => \E j \in 1..Len(tasks') :
              /\ tasks'[j].id = ts0[i].id
              /\ \/ /\ tasks'[j].status = "running"
                    /\ ts0[i].id \in DOMAIN runningProcesses'
                 \/ /\ tasks'[j].status = "review"
                    /\ tasks'[j].output \in FailureTexts

\* C8 as stated: after a tick (the timer's, the one startPolling runs, the
\* one a created task schedules), every task that was pending when the tick
\* began is running with a registered handle or in review with the
\* dispatch error text.
C8_AsStated ==
    [][/\ (TimerTick \/ Listen \/ (StartPolling /\ ~pollingRunning))
            => Dispatched(tasks)
       /\ CreateTask_S => Dispatched(Append(tasks, newTask(nextId + 1, "t1")))]_vars

\* C9 as stated: when a task that was pending or running is neither any
\* more and carries the text of a failed launch, it is in review, exactly
\* one worker entry holding that text has been appended to its history,
\* and the registry has no entry for it.
C9_AsStated ==
    [][\A j \in 1..Len(tasks') :
           LET t2 == tasks'[j]
               k == findIndex(tasks, t2.id)
               before == IF k = 0 THEN newTask(t2.id, "t1") ELSE tasks[k]
           IN  (/\ before.status \in {"pending", "running"}
                /\ t2.status \notin {"pending", "running"}
                /\ t2.output \in FailureTexts)
               => /\ t2.status = "review"
                  /\ t2.history = Append(before.history,
                                         [role |-> "claude", content |-> Val(t2.output)])
                  /\ t2.id \notin DOMAIN runningProcesses']_vars

\* The sanitizer of the listing in use.
Sanitized(str) == IF iteration = "session" THEN stripAnsi_S(str) ELSE stripAnsi_R(str)

\* C10 as stated: the first tick of a restarted server with the session
\* backend leaves every task that was running with its session gone in
\* review or question, with the sanitized, truncated content of the log as
\* output when the log has content and the session-ended placeholder
\* otherwise.
C10_AsStated ==
    [][(Listen /\ hasTmux) =>
         \A i \in 1..Len(tasks) :
            (tasks[i].status = "running" /\ tasks[i].id \notin sessions)
            => \A j \in Later(i) :
                  /\ tasks'[j].status \in {"review", "question"}
                  /\ tasks'[j].output =
                        IF logs[tasks[i].id] \notin { Null, Some(<<>>) }
                        THEN Some(truncateTail(Sanitized(Val(logs[tasks[i].id]))))
                        ELSE Some(SessionEndedText)]_vars

\* ------------------------------------------------------------------
\* Properties of restart recovery, delete and stop.

\* C11 as stated: the first tick of a restarted server with the session
\* backend leaves every task that was running with its session still alive
\* running, with an entry for it in the registry and its session untouched.
C11_AsStated ==
    [][(Listen /\ hasTmux) =>
         \A i \in 1..Len(tasks) :
            (tasks[i].status = "running" /\ tasks[i].id \in sessions)
            => /\ \A j \in Later(i) : tasks'[j].status = "running"
               /\ Later(i) # {}
               /\ tasks[i].id \in DOMAIN runningProcesses'
               /\ tasks[i].id \in sessions']_vars


\* ------------------------------------------------- claims: cancellation

\* A worker of task id that can still act: a session of that name, or a
\* child process that has not been signalled and has not failed to start.
LiveWorker(ss, ps, id) ==
    id \in ss \/ \E p \in ps : p.task = id /\ p.st = "live"

\* C13 as stated: after DELETE has removed a task, the task is not in the
\* repository, the registry has no entry for it and no worker of it is alive.
C13_AsStated ==
    [][\A id \in Ids :
          (id \in TaskIds(tasks) /\ DeleteRequest(id))
          => /\ id \notin TaskIds(tasks')
             /\ id \notin DOMAIN runningProcesses'
             /\ ~LiveWorker(sessions', procs', id)]_vars

\* C14 as stated: in the state where a stop request has marked a task
\* completed the registry holds no entry for it, and a refused stop request
\* changes nothing.
C14_AsStated ==
    [][\A id \in Ids :
          StopRequest(id)
          => IF response' = "200"
             THEN /\ tasks'[findIndex(tasks, id)].status = "completed"
                  /\ id \notin DOMAIN runningProcesses'
             ELSE UNCHANGED << tasks, Handles >> /\ broadcasts' = 0]_vars

\* A completion arrives from a worker: an exit callback, a spawn-error
\* callback, or a monitor that found its session gone.
CompletionArrives ==
    ProcClose_S \/ ProcError_S \/ ProcClose_R \/ ProcError_R \/ Monitor_S

\* C19 as stated: a completion that arrives from a worker leaves every task
\* that is not running as it was, and persists nothing when it changed no
\* task.
C19_AsStated ==
    [][CompletionArrives
       => /\ Len(tasks') = Len(tasks)
          /\ \A i \in 1..Len(tasks) :
                tasks[i].status # "running" => tasks'[i] = tasks[i]
          /\ (tasks' = tasks => broadcasts' = 0)]_vars

\* --------------------------------------------- claims: restart recovery

\* Task i, running with no registry entry, has been demoted: pending, no
\* handle reference, no registry entry, output and history as they were.
Demoted(i) ==
    /\ Later(i) # {}
    /\ \A j \in Later(i) :
          /\ tasks'[j].status = "pending"
          /\ IsNull(tasks'[j].pid)
          /\ tasks'[j].output = tasks[i].output
          /\ tasks'[j].history = tasks[i].history
    /\ tasks[i].id \notin DOMAIN runningProcesses'

\* Task i, pending, has been dispatched to a child process that did not
\* exist before: running, a process entry in the registry, its process new.
Redispatched(i) ==
    /\ Later(i) # {}
    /\ \A j \in Later(i) : tasks'[j].status = "running"
    /\ tasks[i].id \in DOMAIN runningProcesses'
    /\ runningProcesses'[tasks[i].id].kind = "proc"
    /\ \E p \in procs' \ procs :
          p.task = tasks[i].id /\ p.h = runningProcesses'[tasks[i].id].h

C15_AsStated ==
    /\ pollingRunning <=> timers = 1
    /\ timers <= 1

\* C16 as stated: a config update made while the scheduler is active leaves
\* it active with exactly one timer whose period is the new polling interval
\* and no task that was pending still pending; one made while the scheduler
\* is inactive leaves it inactive with no timer.
C16_AsStated ==
    [][\A body \in ConfigBodies :
          ConfigRequest(body)
          => IF pollingRunning
             THEN /\ pollingRunning'
                  /\ timers' = 1
                  /\ config'.pollingInterval.num
                  /\ timerDelay' = config'.pollingInterval.n * 1000
                  /\ \A i \in 1..Len(tasks) :
                        tasks[i].status = "pending"
                        => /\ Later(i) # {}
                           /\ \A j \in Later(i) : tasks'[j].status # "pending"
             ELSE ~pollingRunning' /\ timers' = 0]_vars

\* C17 as stated: in every reachable state the configured polling interval
\* is a number greater than 0.
C17_AsStated ==
    /\ config.pollingInterval.num
    /\ config.pollingInterval.n > 0

\* ---------------------------------------------------- claims: the output

\* C18 as stated: in every reachable state a task's stored output, when
\* present, is at most OutputCap long.
C18_AsStated ==
    \A i \in 1..Len(tasks) :
        ~IsNull(tasks[i].output) => Len(Val(tasks[i].output)) <= OutputCap

\* ------------------------------------------------- claims: the registry

\* C20 as stated: once the restarted server has run its first tick, every
\* task whose persisted status is running has a handle registered under its
\* identifier.
C20_AsStated ==
    serving => \A i \in 1..Len(tasks) :
                  tasks[i].status = "running"
                  => tasks[i].id \in DOMAIN runningProcesses

\* ------------------------------------------------- claims: the history

\* C21 as stated: in the second listing every step that takes a task from
\* running to review or question appends exactly one entry to its history,
\* with role claude and the stored output as content, and no step appends
\* more than one entry to a history.
C21_AsStated ==
    [][iteration = "review"
       => \A i \in 1..Len(tasks) : \A j \in Later(i) :
             /\ Len(tasks'[j].history) <= Len(tasks[i].history) + 1
             /\ (tasks[i].status = "running"
                 /\ tasks'[j].status \in {"review", "question"})
                => /\ Len(tasks'[j].history) = Len(tasks[i].history) + 1
                   /\ SubSeq(tasks'[j].history, 1, Len(tasks[i].history))
                        = tasks[i].history
                   /\ tasks'[j].history[Len(tasks'[j].history)]
                        = [role |-> "claude", content |-> Val(tasks'[j].output)]]_vars

\* ---------------------------------------------------- claims: the tick

\* A step that is one scheduler tick: the timer's, or the immediate one of
\* startPolling.
TickStep == TimerTick \/ Listen \/ StartPolling

\* The step started a worker, so it set the status of the task it
\* dispatched.
WorkerStarted == sessions' \ sessions # {} \/ procs' \ procs # {}

\* C22 as stated: a tick saves the tasks at most once, exactly once when it
\* changed a task (the persisted tasks differ, or it dispatched a worker)
\* and not at all when it changed none.
C22_AsStated ==
    [][TickStep
       => /\ broadcasts' <= 1
          /\ (tasks' = tasks /\ ~WorkerStarted) => broadcasts' = 0
          /\ (tasks' # tasks \/ WorkerStarted) => broadcasts' = 1]_vars

\* C23 as stated: whatever fails while a timer tick processes a task, the
\* server is still up after the tick with the scheduler active and its
\* timer installed, what the tick did before the failure is saved, and at
\* most the task whose processing failed is still pending.
C23_AsStated ==
    [][TimerTick
       => /\ serving'
          /\ pollingRunning' = pollingRunning
          /\ timers' = timers
          /\ WorkerStarted => broadcasts' = 1
          /\ Cardinality({ i \in 1..Len(tasks) :
                            /\ tasks[i].status = "pending"
                            /\ \E j \in Later(i) : tasks'[j].status = "pending" }) <= 1]_vars

\* C24 as stated (its second half): while the server is up and the
\* scheduler is reported active, a task that is running with no handle in
\* the registry has a step to come that can reconcile or recover it: a
\* timer tick, a monitor poll or a callback of a child process of the task.
C24_AsStated ==
    (serving /\ pollingRunning)
    => \A i \in 1..Len(tasks) :
          (tasks[i].status = "running" /\ tasks[i].id \notin DOMAIN runningProcesses)
          => \/ timers > 0
             \/ tasks[i].id \in monitors
             \/ \E p \in procs : p.task = tasks[i].id

\* ------------------------------------------- claims: the session query

\* The tick asks whether the session of task i exists: a running task with
\* a session entry in the registry (second listing), or with no entry at
\* all after a restart (first listing).
Queried(i) ==
    /\ hasTmux
    /\ tasks[i].status = "running"
    /\ IF iteration = "review"
       THEN /\ tasks[i].id \in DOMAIN runningProcesses
            /\ runningProcesses[tasks[i].id].kind = "tmux"
       ELSE tasks[i].id \notin DOMAIN runningProcesses

\* Processing task i with a failing query does to the tasks, the registry,
\* the monitors and the files what processing it with its session gone
\* does, and takes the task out of running.
FailedQueryAsGone(i) ==
    LET failed == pollTask(World, i, "queryFail")
        gone == pollTask([World EXCEPT !.sessions = @ \ {tasks[i].id}], i, "ok")
    IN  /\ failed.tasks = gone.tasks
        /\ failed.reg = gone.reg
        /\ failed.logs = gone.logs
        /\ failed.monitors = gone.monitors
        /\ failed.changed = gone.changed
        /\ failed.tasks[i].status # "running"
        /\ tasks[i].id \notin DOMAIN failed.reg

LiveWorkers(id) ==
    (IF id \in sessions THEN 1 ELSE 0)
    + Cardinality({ p \in procs : p.task = id /\ p.st \in {"live", "orphan"} })

\* C26 as stated: at every moment at most one worker invocation is alive
\* for any task identifier.
C26_AsStated == \A id \in Ids : LiveWorkers(id) <= 1

\* C27 as stated: a step of the running server that begins and ends with
\* the scheduler inactive puts no task into running: every task that is
\* running after it was running before it.
C27_AsStated ==
    [][(serving /\ ~pollingRunning /\ ~pollingRunning')
       => \A j \in 1..Len(tasks') :
             tasks'[j].status = "running"
             => \E i \in 1..Len(tasks) :
                   tasks[i].id = tasks'[j].id /\ tasks[i].status = "running"]_vars

\* C28 as stated: while the server is up every identifier in the registry,
\* and every identifier with a live monitor, belongs to a task of the
\* repository whose status is running.
C28_AsStated ==
    serving
    => \A id \in (DOMAIN runningProcesses) \cup monitors :
          \E i \in 1..Len(tasks) : tasks[i].id = id /\ tasks[i].status = "running"
=============================================================================
